---- MODULE Spec2Model ----
(***************************************************************************)
(* A model of the go-tdms reader: the open pass (scan loop, segment        *)
(* metadata reducer, projection into groups and channels), the streaming   *)
(* batch reader and File.Close.                                            *)
(*                                                                         *)
(* Go pointers are modelled by two heaps: idxHeap holds the objectIndex    *)
(* records that object.index points to, propHeap holds the property maps   *)
(* that object.properties refers to.  Address 0 is nil.                    *)
(* A Go panic is the outcome "panic".                                      *)
(*                                                                         *)
(* Spec is the reader at work on a file.  SpecPure examines the helpers    *)
(* that take no File, one call at a time: parsePath, Timestamp.AsTime and  *)
(* the decoding of a Float128.                                             *)
(***************************************************************************)
EXTENDS Integers, Sequences, FiniteSets, TLC

\* ---------------------------------------------------------------- bounds
MaxSegs == 2
MaxVals == 2
MaxChunks == 2
MaxCut == 2
MaxBatch == 2
MaxReads == 2
MaxPathLen == 6
MaxName == 2
IndexBulk == 20
MaxScan == 4
WordBits == 16

\* ------------------------------------------------------ program constants
leadInSize == 28
defaultBatchSize == 2056
defaultStringBatchSize == 256

\* uint64 arithmetic, scaled to WordBits bits
Mod64 == 2 ^ WordBits
segmentIncomplete == Mod64 - 1
U64(x) == x % Mod64
ToInt64(x) == IF U64(x) >= Mod64 \div 2 THEN U64(x) - Mod64 ELSE U64(x)

Min(a, b) == IF a < b THEN a ELSE b

\* ------------------------------------------------------------- data types
Size(dt) ==
  CASE dt \in {"Void", "String"} -> 0
    [] dt \in {"Int8", "Uint8", "Bool"} -> 1
    [] dt \in {"Int16", "Uint16"} -> 2
    [] dt \in {"Int32", "Uint32", "Float32"} -> 4
    [] OTHER -> 0

\* order.Uint16 / Uint32 on the leading bytes of b
RECURSIVE leUint(_, _)
leUint(b, n) == IF n = 0 THEN 0 ELSE b[1] + 256 * leUint(Tail(b), n - 1)

RECURSIVE beUint(_, _)
beUint(b, n) == IF n = 0 THEN 0 ELSE b[n] + 256 * beUint(b, n - 1)

orderUint(b, n, order) == IF order = "LE" THEN leUint(b, n) ELSE beUint(b, n)

\* interpretInt8 / interpretInt16 / interpretString
interpret(dt, b, order) ==
  IF dt = "String" THEN b
  ELSE IF Size(dt) = 1 THEN b[1]
  ELSE orderUint(b, Size(dt), order)

\* ------------------------------------------------------------------ paths
NUL == "NUL"
Quoted(name) == <<"/", "'">> \o name \o <<"'">>
PathRoot == <<"/">>
PathG == Quoted(<<"G">>)
PathC == PathG \o Quoted(<<"C">>)
PathD == PathG \o Quoted(<<"D">>)
PathH == Quoted(<<"H">>)
PathHC == PathH \o Quoted(<<"C">>)

\* inner loop of parsePath: collects one component, i is the scan position
RECURSIVE parseComponent(_, _, _)
parseComponent(path, i, comp) ==
  IF i > Len(path) THEN [i |-> i, comp |-> comp, panic |-> TRUE]
  ELSE LET char == path[i]
           nextChar == IF i + 1 <= Len(path) THEN path[i + 1] ELSE NUL
       IN IF char = "'"
          THEN IF nextChar = "'"
               THEN parseComponent(path, i + 2, Append(comp, char))
               ELSE [i |-> i, comp |-> comp, panic |-> FALSE]
          ELSE parseComponent(path, i + 1, Append(comp, char))

RECURSIVE parseComponents(_, _, _)
parseComponents(path, i, components) ==
  IF i > Len(path) THEN [components |-> components, err |-> "panic"]
  ELSE LET char == path[i]
           nextChar == IF i + 1 <= Len(path) THEN path[i + 1] ELSE NUL
       IN IF char # "/" THEN [components |-> components, err |-> "ErrInvalidPath"]
          ELSE IF nextChar = NUL THEN [components |-> components, err |-> "nil"]
          ELSE IF nextChar # "'" THEN [components |-> components, err |-> "ErrInvalidPath"]
          ELSE LET r == parseComponent(path, i + 2, <<>>)
               IN IF r.panic THEN [components |-> components, err |-> "panic"]
                  ELSE IF r.i + 1 > Len(path)
                       THEN [components |-> Append(components, r.comp), err |-> "nil"]
                       ELSE parseComponents(path, r.i + 1, Append(components, r.comp))

\* a parsePath that hands the first component out as the channel too
parsePathFirstOnly(path) ==
  LET r == parseComponents(path, 1, <<>>)
  IN IF r.err # "nil" THEN [group |-> <<>>, channel |-> <<>>, err |-> r.err]
     ELSE [group |-> IF Len(r.components) > 0 THEN r.components[1] ELSE <<>>,
           channel |-> IF Len(r.components) > 1 THEN r.components[1] ELSE <<>>,
           err |-> "nil"]

parsePath(path) ==
  LET r == parseComponents(path, 1, <<>>)
  IN IF r.err # "nil" THEN [group |-> <<>>, channel |-> <<>>, err |-> r.err]
     ELSE [group |-> IF Len(r.components) > 0 THEN r.components[1] ELSE <<>>,
           channel |-> IF Len(r.components) > 1 THEN r.components[2] ELSE <<>>,
           err |-> "nil"]

\* ----------------------------------------------------------- property maps
EmptyMap == [k \in {} |-> 0]
\* a maps.Copy that keeps the destination's value of a key both maps hold
mapsCopyKeepsOld(dst, src) ==
  [k \in DOMAIN dst \cup DOMAIN src |-> IF k \in DOMAIN dst THEN dst[k] ELSE src[k]]

\* maps.Copy(dst, src)
mapsCopy(dst, src) ==
  [k \in DOMAIN dst \cup DOMAIN src |-> IF k \in DOMAIN src THEN src[k] ELSE dst[k]]

\* ------------------------------------------------------------ input files
\* An input file is described by a shape; BuildFile lays its bytes out the
\* way a TDMS writer does: per segment a 28-byte lead-in, the metadata
\* block, then nchunks chunks of raw data.
HeaderNoRawData == "NoRawData"
HeaderMatchesPrevious == "MatchesPrevious"
HeaderIndex == "Index"

Variant == [nol : BOOLEAN,
            il : BOOLEAN,
            cMode : {"absent", HeaderMatchesPrevious, HeaderIndex, HeaderNoRawData},
            dMode : {"absent", HeaderMatchesPrevious},
            prop : {"p", "q"}]

Shape == [tC : {"Int8", "Int16", "String"},
          n1 : 0..MaxVals,
          dKind : {"none", "Int8", "Int16"},
          interleaved : BOOLEAN,
          nchunks : 1..MaxChunks,
          hdr1 : {HeaderIndex, HeaderMatchesPrevious, HeaderNoRawData},
          nol1 : BOOLEAN,
          sentinel : BOOLEAN,
          cut : 0..MaxCut,
          how : {"Open", "NewOsFile", "NewReader", "OpenIndex"},
          layout : {"plain", "twin"},
          nso : {"written", "stay", "back", "before"},
          more : UNION {[1..n -> Variant] : n \in 0..(MaxSegs - 1)}]

NumSegs(s) == 1 + Len(s.more)
NumValuesD(s) == IF s.n1 = 0 THEN 1 ELSE s.n1
NumValuesC(s, k) == IF k = 1 THEN s.n1 ELSE ((s.n1 + k - 2) % MaxVals) + 1

Rec(path, header, dt, n, props) ==
  [path |-> path, header |-> header, dataType |-> dt, numValues |-> n,
   totalSize |-> 0, props |-> props]

\* the properties every record of the first segment sets
FirstProps == ("p" :> 1) @@ ("r" :> 1)

\* a second group with a channel named like the first group's: /'H'/'C'
TwinProps == "t" :> 9
TwinRecords ==
  <<Rec(PathH, HeaderNoRawData, "Void", 0, TwinProps),
    Rec(PathHC, HeaderIndex, "Int8", 1, TwinProps)>>

RecordsOf(s, k) ==
  IF k = 1
  THEN <<Rec(PathRoot, HeaderNoRawData, "Void", 0, FirstProps),
         Rec(PathG, HeaderNoRawData, "Void", 0, FirstProps),
         Rec(PathC, s.hdr1, s.tC, s.n1, FirstProps)>>
       \o (IF s.dKind = "none" THEN <<>>
           ELSE <<Rec(PathD, HeaderIndex, s.dKind, NumValuesD(s), FirstProps)>>)
       \o (IF s.layout = "twin" THEN TwinRecords ELSE <<>>)
  ELSE LET v == s.more[k - 1]
           props == v.prop :> k
       IN <<Rec(PathRoot, HeaderNoRawData, "Void", 0, props),
            Rec(PathG, HeaderNoRawData, "Void", 0, props)>>
          \o (IF v.cMode = "absent" THEN <<>>
              ELSE <<Rec(PathC, v.cMode, s.tC, NumValuesC(s, k), props)>>)
          \o (IF v.dMode = "absent" THEN <<>>
              ELSE <<Rec(PathD, v.dMode, "Void", 0, props)>>)

SegNewObjectList(s, k) == IF k = 1 THEN s.nol1 ELSE s.more[k - 1].nol
SegInterleaved(s, k) == IF k = 1 THEN s.interleaved ELSE s.more[k - 1].il

\* the channels that have raw data in a segment, in layout order
Find(active, path) == {i \in DOMAIN active : active[i].path = path}

RefMerge(active, prevActive, rec) ==
  LET idx == IF rec.header = HeaderIndex
             THEN <<[path |-> rec.path, dataType |-> rec.dataType, numValues |-> rec.numValues]>>
             ELSE IF rec.header = HeaderMatchesPrevious /\ Find(prevActive, rec.path) # {}
             THEN <<prevActive[CHOOSE i \in Find(prevActive, rec.path) : TRUE]>>
             ELSE <<>>
  IN IF rec.header = HeaderNoRawData
     THEN SelectSeq(active, LAMBDA a : a.path # rec.path)
     ELSE IF idx = <<>> THEN active
     ELSE IF Find(active, rec.path) # {}
          THEN [active EXCEPT ![CHOOSE i \in Find(active, rec.path) : TRUE] = idx[1]]
          ELSE Append(active, idx[1])

RECURSIVE RefFold(_, _, _)
RefFold(active, prevActive, recs) ==
  IF recs = <<>> THEN active
  ELSE RefFold(RefMerge(active, prevActive, Head(recs)), prevActive, Tail(recs))

RefSeg(prev, newObjectList, recs) ==
  RefFold(IF newObjectList THEN <<>> ELSE prev, prev, recs)

RECURSIVE RefActive(_, _)
RefActive(s, k) ==
  IF k = 0 THEN <<>>
  ELSE RefSeg(RefActive(s, k - 1), SegNewObjectList(s, k), RecordsOf(s, k))

\* "OpenIndex" opens the index file (.tdms_index) of the data file the shape
\* describes; its first segment holds IndexBulk chunks when nchunks = 2
IsIndexShape(s) == s.how = "OpenIndex"

SegChunks(s, k) ==
  IF k # 1 THEN 1
  ELSE IF IsIndexShape(s) /\ s.nchunks = 2 THEN IndexBulk ELSE s.nchunks

\* samples of a channel written before segment k
WrittenIn(act, path, chunks) ==
  IF Find(act, path) = {} THEN 0
  ELSE act[CHOOSE i \in Find(act, path) : TRUE].numValues * chunks

RECURSIVE WrittenBefore(_, _, _)
WrittenBefore(s, k, path) ==
  IF k <= 1 THEN 0
  ELSE WrittenBefore(s, k - 1, path)
       + WrittenIn(RefActive(s, k - 1), path, SegChunks(s, k - 1))

RECURSIVE Flatten(_)
Flatten(ss) == IF ss = <<>> THEN <<>> ELSE Head(ss) \o Flatten(Tail(ss))

\* length of the i-th string (1-based) of a chunk holding n strings
StrLen(n, i) == IF n = 1 THEN 0 ELSE IF n > 2 /\ i % 3 = 2 THEN 0 ELSE i

RECURSIVE StrEnd(_, _)
StrEnd(n, i) == IF i = 0 THEN 0 ELSE StrEnd(n, i - 1) + StrLen(n, i)

Tag(path, idx) ==
  idx + 1 + (IF path = PathD THEN 64 ELSE IF path = PathHC THEN 128 ELSE 0)

\* the bytes of sample number idx (0-based, over the whole file) of channel a,
\* stored at position i (1-based) of its chunk
SampleBytes(a, idx, i) ==
  IF a.dataType = "String"
  THEN [j \in 1..StrLen(a.numValues, i) |-> Tag(a.path, idx)]
  ELSE [j \in 1..Size(a.dataType) |-> IF j = 1 THEN Tag(a.path, idx) ELSE 7]

SampleValue(a, idx, i) == interpret(a.dataType, SampleBytes(a, idx, i), "LE")

u32le(x) == <<x % 256, (x \div 256) % 256, 0, 0>>

ChannelChunk(a, idx0) ==
  (IF a.dataType = "String"
   THEN Flatten([i \in 1..a.numValues |-> u32le(StrEnd(a.numValues, i))])
   ELSE <<>>)
  \o Flatten([i \in 1..a.numValues |-> SampleBytes(a, idx0 + i - 1, i)])

RefTotalSize(a) == Len(ChannelChunk(a, 0))

MaxRows(act) ==
  IF act = <<>> THEN 0
  ELSE CHOOSE m \in {act[i].numValues : i \in DOMAIN act} :
         \A i \in DOMAIN act : act[i].numValues <= m

\* the raw data of a segment whose channels with data are act, base[i]
\* samples of act[i] having been written before it
SegDataOf(act, base, interleaved, chunks) ==
  IF interleaved /\ \A i \in DOMAIN act : act[i].dataType # "String"
  THEN Flatten([j \in 1..chunks |->
         Flatten([r \in 1..MaxRows(act) |->
           Flatten([i \in DOMAIN act |->
             IF r <= act[i].numValues
             THEN SampleBytes(act[i], base[i] + (j - 1) * act[i].numValues + r - 1, r)
             ELSE <<>>])])])
  ELSE Flatten([j \in 1..chunks |->
         Flatten([i \in DOMAIN act |->
           ChannelChunk(act[i], base[i] + (j - 1) * act[i].numValues)])])

BaseOf(s, k, act) == [i \in DOMAIN act |-> WrittenBefore(s, k, act[i].path)]

SegDataIn(s, k, act) ==
  SegDataOf(act, BaseOf(s, k, act), SegInterleaved(s, k), SegChunks(s, k))

SegData(s, k) == SegDataIn(s, k, RefActive(s, k))

\* wire length of one object record and of a metadata block
RecLen(rec) ==
  4 + Len(rec.path) + 4
  + (IF rec.header = HeaderIndex
     THEN 16 + (IF rec.dataType = "String" THEN 8 ELSE 0) ELSE 0)
  + 4 + 13 * Cardinality(DOMAIN rec.props)

RECURSIVE SumLen(_)
SumLen(recs) == IF recs = <<>> THEN 0 ELSE RecLen(Head(recs)) + SumLen(Tail(recs))
MetaLen(recs) == 4 + SumLen(recs)

Fill(n, b) == [i \in 1..n |-> b]

\* the records with the total size a writer stores in a raw index
SizedRecords(recs0) ==
  [i \in DOMAIN recs0 |->
     IF recs0[i].header = HeaderIndex
     THEN [recs0[i] EXCEPT !.totalSize =
             RefTotalSize([path |-> recs0[i].path, dataType |-> recs0[i].dataType,
                           numValues |-> recs0[i].numValues])]
     ELSE recs0[i]]

\* a next-segment offset the last lead-in may hold instead of the written
\* one: as a signed number plus 28 it is zero ("stay"), it leads back to the
\* start of the file ("back"), or to one byte before it ("before")
StrayOffset(nso, offset) ==
  IF nso = "stay" THEN U64(Mod64 - leadInSize)
  ELSE IF nso = "back" THEN U64(Mod64 - leadInSize - offset)
  ELSE U64(Mod64 - leadInSize - offset - 1)

BuildSegOf(s, k, offset, recs, metaLen, data) ==
  [offset |-> offset,
   records |-> recs,
   bytes |-> Fill(leadInSize, 254) \o Fill(metaLen, 253) \o data,
   leadIn |-> [containsMetadata |-> TRUE,
               containsRawData |-> Len(data) > 0,
               isInterleaved |-> SegInterleaved(s, k),
               byteOrder |-> "LE",
               newObjectList |-> SegNewObjectList(s, k),
               nextSegmentOffset |-> IF k = NumSegs(s) /\ s.sentinel
                                     THEN segmentIncomplete
                                     ELSE IF k = NumSegs(s) /\ s.nso # "written"
                                     THEN StrayOffset(s.nso, offset)
                                     ELSE metaLen + Len(data),
               rawDataOffset |-> metaLen]]

BuildSegWith(s, k, offset, recs) ==
  BuildSegOf(s, k, offset, recs, MetaLen(recs), SegData(s, k))

BuildSeg(s, k, offset) == BuildSegWith(s, k, offset, SizedRecords(RecordsOf(s, k)))

RECURSIVE BuildSegs(_, _, _)
BuildSegsAfter(s, k, seg) ==
  <<seg>> \o BuildSegs(s, k + 1, seg.offset + Len(seg.bytes))

BuildSegs(s, k, offset) ==
  IF k > NumSegs(s) THEN <<>> ELSE BuildSegsAfter(s, k, BuildSeg(s, k, offset))

FileOf(s, segs, all) ==
  [segs |-> [k \in DOMAIN segs |-> [offset |-> segs[k].offset,
                                    records |-> segs[k].records,
                                    leadIn |-> segs[k].leadIn]],
   bytes |-> SubSeq(all, 1, Len(all) - s.cut),
   size |-> Len(all) - s.cut,
   isIndex |-> FALSE,
   how |-> s.how]

FileOfSegs(s, segs) == FileOf(s, segs, Flatten([k \in DOMAIN segs |-> segs[k].bytes]))

\* the index file of a data file: every segment's lead-in and metadata,
\* without the raw data, one after the other
RECURSIVE IndexOffset(_, _)
IndexOffset(segs, k) ==
  IF k = 1 THEN 0
  ELSE IndexOffset(segs, k - 1) + leadInSize + segs[k - 1].leadIn.rawDataOffset

IndexBytes(segs) ==
  Flatten([k \in DOMAIN segs |->
             Fill(leadInSize, 254) \o Fill(segs[k].leadIn.rawDataOffset, 253)])

IndexFileOf(s, segs) ==
  [segs |-> [k \in DOMAIN segs |-> [offset |-> IndexOffset(segs, k),
                                    records |-> segs[k].records,
                                    leadIn |-> segs[k].leadIn]],
   bytes |-> IndexBytes(segs),
   size |-> Len(IndexBytes(segs)),
   isIndex |-> TRUE,
   how |-> "Open"]

BuildFileOf(s, segs) ==
  IF IsIndexShape(s) THEN IndexFileOf(s, segs) ELSE FileOfSegs(s, segs)

BuildFile(s) == BuildFileOf(s, BuildSegs(s, 1, 0))

\* the scenario families the model explores
Admissible(s) ==
  /\ s.hdr1 = HeaderMatchesPrevious =>
       /\ s.more = <<>> /\ s.dKind = "none" /\ s.nchunks = 1 /\ s.cut = 0
       /\ ~s.interleaved /\ s.n1 = 0 /\ s.tC = "Int16"
  /\ s.hdr1 = HeaderNoRawData =>
       /\ s.more = <<>> /\ s.nchunks = 1 /\ s.cut = 0 /\ ~s.sentinel
       /\ ~s.interleaved /\ s.n1 = 0 /\ s.tC = "Int16" /\ s.nol1
       /\ s.how = "Open" /\ s.layout = "plain"
  /\ s.more # <<>> =>
       /\ s.nchunks = 1 \/ IsIndexShape(s)
       /\ s.cut = 0 /\ ~s.sentinel /\ ~s.interleaved
  /\ \A i \in DOMAIN s.more :
       s.more[i].il => /\ Len(s.more) = 1 /\ s.tC = "String" /\ s.dKind = "none"
                       /\ s.hdr1 = HeaderIndex /\ s.n1 >= 1 /\ s.how = "Open"
                       /\ s.more[i].dMode = "absent"
  /\ \A i \in DOMAIN s.more :
       s.more[i].cMode = HeaderNoRawData =>
         /\ Len(s.more) = 1 /\ s.tC = "Int8" /\ s.dKind \in {"none", "Int8"}
         /\ s.hdr1 = HeaderIndex /\ s.n1 >= 1 /\ s.how = "Open"
         /\ (s.more[i].dMode = HeaderMatchesPrevious => s.dKind # "none")
  /\ Len(s.more) >= 2 =>
       /\ s.dKind = "none" /\ s.tC = "Int16" /\ s.n1 = 1
       /\ \A i \in DOMAIN s.more : s.more[i].dMode = "absent"
  /\ s.cut > 0 => s.dKind = "none" /\ s.cut <= Len(SegData(s, NumSegs(s)))
  /\ s.interleaved /\ s.dKind # "none" => s.n1 >= 1
  /\ ~s.nol1 =>
       /\ s.more = <<>> /\ s.nchunks = 1 /\ s.cut = 0 /\ ~s.sentinel
       /\ ~s.interleaved /\ s.how = "Open"
  /\ s.how \in {"NewOsFile", "NewReader"} =>
       s.more = <<>> /\ s.dKind = "none" /\ s.nchunks = 1 /\ ~s.interleaved
  /\ s.nso # "written" =>
       /\ s.tC = "Int8" /\ s.dKind = "none" /\ s.n1 = 1 /\ s.hdr1 = HeaderIndex
       /\ s.nol1 /\ ~s.sentinel /\ s.cut = 0 /\ ~s.interleaved /\ s.nchunks = 1
       /\ s.layout = "plain" /\ s.how = "Open" /\ Len(s.more) <= 1
       /\ s.nso = "back" => Len(s.more) = 1
       /\ \A i \in DOMAIN s.more :
            /\ s.more[i].cMode = HeaderIndex /\ s.more[i].dMode = "absent"
            /\ ~s.more[i].il /\ s.more[i].nol /\ s.more[i].prop = "p"
  /\ IsIndexShape(s) =>
       /\ s.tC = "Int16" /\ s.dKind = "Int16" /\ s.n1 = 2 /\ s.hdr1 = HeaderIndex
       /\ s.nol1 /\ ~s.sentinel /\ s.cut = 0 /\ ~s.interleaved
       /\ s.layout = "plain" /\ Len(s.more) <= 1
       /\ \A i \in DOMAIN s.more :
            /\ s.more[i].cMode \in {HeaderIndex, HeaderMatchesPrevious}
            /\ s.more[i].dMode = "absent" /\ ~s.more[i].il /\ s.more[i].nol
  /\ s.layout = "twin" =>
       /\ s.more = <<>> /\ s.dKind = "none" /\ s.nchunks = 1 /\ s.cut = 0
       /\ ~s.sentinel /\ ~s.interleaved /\ s.how = "Open"
       /\ s.hdr1 = HeaderIndex /\ s.nol1 /\ s.n1 >= 1

Inputs == {s \in Shape : Admissible(s)}

\* no pure call is under examination
NoCall == [fn |-> "none"]
Pending == [fn |-> "pending"]

\* nothing has happened yet: the position of the byte source when Open
\* returned, and the Segment records as they were when appended
NoHistory == [openPos |-> 0, appended |-> <<>>]

\* ------------------------------------------------------------------ state
VARIABLES
  shape,          \* the description the input file was built from
  file,           \* the byte source: its bytes, size and segment layout
  pc,             \* "scan", "project", "ready", "failed", "panic", "closed"
  pos,            \* position of the byte source
  currentOffset,  \* readMetadata: offset of the segment being scanned
  segments,       \* File.segments
  objects,        \* File.objects
  idxHeap,        \* the objectIndex records object.index points to
  propHeap,       \* the property maps object.properties refers to
  Groups,         \* File.Groups
  Properties,     \* File.Properties
  IsIncomplete,   \* File.IsIncomplete
  openErr,        \* the error New / Open returned ("nil" if none)
  srcClosed,      \* the byte source has been closed
  rd,             \* the read sequence (BatchStreamReader) and what it yielded
  reads,          \* number of read sequences started
  other,          \* a second read sequence, pulled while rd is suspended
  hist,           \* history, for the properties only
  call,           \* a call of a pure function under examination: [fn, arg]
  ret             \* what that call returned

vars == <<shape, file, pc, pos, currentOffset, segments, objects, idxHeap,
          propHeap, Groups, Properties, IsIncomplete, openErr, srcClosed, rd, reads,
          other, call, ret, hist>>

fileVars == <<currentOffset, segments, objects, idxHeap, propHeap, Groups, Properties,
              IsIncomplete, openErr>>

\* ------------------------------------------------------- segment lead-in
SegAt(p) == {k \in DOMAIN file.segs : file.segs[k].offset = p}

readSegmentLeadIn(p) ==
  IF p >= file.size THEN [err |-> "ErrReadFailed", k |-> 0]
  ELSE IF SegAt(p) = {} \/ p + leadInSize > file.size
       THEN [err |-> "ErrInvalidFileFormat", k |-> 0]
       ELSE [err |-> "nil", k |-> CHOOSE k \in SegAt(p) : TRUE]

\* ---------------------------------------------------------- object record
NewIndex(dt, n, total) ==
  [scalerType |-> "None", dataType |-> dt, numValues |-> n, totalSize |-> total,
   offset |-> 0, stride |-> 0]

\* readObject: returns the object and the heaps with its index and its
\* property map allocated
readObject(rec, leadIn, prevSegment, ih, ph) ==
  LET none == [path |-> rec.path, index |-> 0, properties |-> 0]
      fail(e) == [err |-> e, obj |-> none, idxHeap |-> ih, propHeap |-> ph]
      ok(index, ih2) ==
        [err |-> "nil",
         obj |-> [path |-> rec.path, index |-> index, properties |-> Len(ph) + 1],
         idxHeap |-> ih2,
         propHeap |-> Append(ph, rec.props)]
  IN CASE rec.header = HeaderNoRawData -> ok(0, ih)
       [] rec.header = HeaderMatchesPrevious ->
            IF prevSegment = 0 THEN fail("panic")
            ELSE IF rec.path \in DOMAIN segments[prevSegment].metadata.objects
                 THEN ok(segments[prevSegment].metadata.objects[rec.path].index, ih)
                 ELSE fail("error")
       [] OTHER ->
            IF rec.dataType = "String" /\ leadIn.isInterleaved
            THEN fail("ErrInvalidFileFormat")
            ELSE ok(Len(ih) + 1,
                    Append(ih, NewIndex(rec.dataType, rec.numValues,
                                        IF rec.dataType = "String" THEN rec.totalSize
                                        ELSE U64(rec.numValues * Size(rec.dataType)))))

\* readSegmentMetadata, lines 527-583: merge one record into the segment's
\* objects and into File.objects
mergeObject(st, obj) ==
  LET path == obj.path
      inSeg == path \in DOMAIN st.mobjs
      existing == st.mobjs[path]
      ph1 == IF inSeg
             THEN [st.propHeap EXCEPT ![existing.properties] =
                     mapsCopy(@, st.propHeap[obj.properties])]
             ELSE st.propHeap
      mobjs1 == IF inSeg
                THEN [st.mobjs EXCEPT ![path].index = IF obj.index # 0 THEN obj.index ELSE @]
                ELSE st.mobjs @@ (path :> obj)
      morder1 == IF inSeg THEN st.morder ELSE Append(st.morder, path)
      inFile == path \in DOMAIN st.tobjs
      rootExisting == st.tobjs[path]
      ph2 == IF inFile
             THEN [ph1 EXCEPT ![rootExisting.properties] = mapsCopy(@, ph1[obj.properties])]
             ELSE Append(ph1, ph1[obj.properties])
      tobjs1 == IF inFile
                THEN [st.tobjs EXCEPT ![path].index = IF obj.index # 0 THEN obj.index ELSE @]
                ELSE st.tobjs @@ (path :> [obj EXCEPT !.properties = Len(ph2)])
  IN [st EXCEPT !.mobjs = mobjs1, !.morder = morder1, !.tobjs = tobjs1, !.propHeap = ph2]

\* the loop over the records of a segment (lines 517-583); r is what
\* readObject returned for the first record left
RECURSIVE readObjects(_, _, _, _)
afterReadObject(st, recs, leadIn, prevSegment, r) ==
  IF r.err # "nil" THEN [st EXCEPT !.err = r.err]
  ELSE readObjects(mergeObject([st EXCEPT !.idxHeap = r.idxHeap,
                                          !.propHeap = r.propHeap], r.obj),
                   Tail(recs), leadIn, prevSegment)

readObjects(st, recs, leadIn, prevSegment) ==
  IF recs = <<>> \/ st.err # "nil" THEN st
  ELSE afterReadObject(st, recs, leadIn, prevSegment,
         readObject(Head(recs), leadIn, prevSegment, st.idxHeap, st.propHeap))

RECURSIVE SumTotalSize(_, _, _)
SumTotalSize(mobjs, paths, ih) ==
  IF paths = {} THEN 0
  ELSE LET p == CHOOSE q \in paths : TRUE
       IN (IF mobjs[p].index # 0 THEN ih[mobjs[p].index].totalSize ELSE 0)
          + SumTotalSize(mobjs, paths \ {p}, ih)

\* readSegmentMetadata, lines 603-618: offsets and strides, in object order
RECURSIVE assignOffsets(_, _, _, _, _)
assignOffsets(ih, mobjs, order, dataOffset, chunkSize) ==
  IF order = <<>> THEN ih
  ELSE LET a == mobjs[Head(order)].index
       IN IF a = 0 \/ ih[a].totalSize = 0
          THEN assignOffsets(ih, mobjs, Tail(order), dataOffset, chunkSize)
          ELSE assignOffsets(
                 [ih EXCEPT ![a].offset = dataOffset,
                            ![a].stride = ToInt64(chunkSize - ih[a].totalSize)],
                 mobjs, Tail(order), ToInt64(dataOffset + ToInt64(ih[a].totalSize)),
                 chunkSize)

\* a seeding that lets a segment without new-object-list through when there
\* is no previous segment
seedObjectsUnchecked(leadIn, prevSegment) ==
  [mobjs |-> IF leadIn.newObjectList \/ prevSegment = 0 THEN [p \in {} |-> 0]
             ELSE segments[prevSegment].metadata.objects,
   morder |-> IF leadIn.newObjectList \/ prevSegment = 0 THEN <<>>
              ELSE segments[prevSegment].metadata.objectOrder,
   tobjs |-> objects,
   idxHeap |-> idxHeap,
   propHeap |-> propHeap,
   err |-> "nil"]

\* readSegmentMetadata, lines 503-515: the objects a segment starts from
seedObjects(leadIn, prevSegment) ==
  [mobjs |-> IF leadIn.newObjectList \/ prevSegment = 0 THEN [p \in {} |-> 0]
             ELSE segments[prevSegment].metadata.objects,
   morder |-> IF leadIn.newObjectList \/ prevSegment = 0 THEN <<>>
              ELSE segments[prevSegment].metadata.objectOrder,
   tobjs |-> objects,
   idxHeap |-> idxHeap,
   propHeap |-> propHeap,
   err |-> IF ~leadIn.newObjectList /\ prevSegment = 0
           THEN "ErrInvalidFileFormat" ELSE "nil"]

\* readSegmentMetadata, lines 584-620: chunk size, number of chunks, offsets
layoutChunks(segmentOffset, leadIn, st, chunkSize) ==
  LET totalRawDataSize ==
        IF leadIn.nextSegmentOffset = segmentIncomplete
        THEN U64(U64(file.size) - U64(U64(segmentOffset) + leadInSize + leadIn.rawDataOffset))
        ELSE U64(leadIn.nextSegmentOffset - leadIn.rawDataOffset)
      dataOffset == ToInt64(segmentOffset + ToInt64(leadInSize + leadIn.rawDataOffset))
  IN IF chunkSize = 0 THEN [err |-> "panic"]
     ELSE [err |-> "nil",
           metadata |-> [objects |-> st.mobjs, objectOrder |-> st.morder,
                         numChunks |-> totalRawDataSize \div chunkSize,
                         chunkSize |-> chunkSize],
           tobjs |-> st.tobjs,
           idxHeap |-> assignOffsets(st.idxHeap, st.mobjs, st.morder, dataOffset, chunkSize),
           propHeap |-> st.propHeap]

afterReadObjects(segmentOffset, leadIn, st) ==
  IF st.err # "nil" THEN [err |-> st.err]
  ELSE layoutChunks(segmentOffset, leadIn, st,
                    U64(SumTotalSize(st.mobjs, DOMAIN st.mobjs, st.idxHeap)))

readSegmentMetadata(segmentOffset, leadIn, recs, prevSegment) ==
  afterReadObjects(segmentOffset, leadIn,
    readObjects(seedObjects(leadIn, prevSegment), recs, leadIn, prevSegment))

\* ----------------------------------------------------- readMetadata: scan
\* New / Open return an error (Open closes the file it opened) or crash
OpenFails(e) ==
  /\ pc' = IF e = "panic" THEN "panic" ELSE "failed"
  /\ openErr' = e
  /\ srcClosed' = (e # "panic" /\ file.how = "Open")

\* one iteration of the scan loop of readMetadata
\* the rest of an iteration once the lead-in and the metadata are read:
\* md is what readSegmentMetadata returned ("skip" if there is no metadata),
\* after the position the byte source has once the metadata is consumed
scanned(seg, md, next, after) ==
  IF md.err \notin {"nil", "skip"}
  THEN /\ OpenFails(md.err)
       /\ UNCHANGED <<pos, currentOffset, segments, objects, idxHeap, propHeap,
                      IsIncomplete>>
  ELSE /\ IF md.err = "nil"
          THEN /\ segments' = Append(segments, [offset |-> currentOffset,
                                                leadIn |-> seg.leadIn,
                                                metadata |-> md.metadata])
               /\ objects' = md.tobjs
               /\ idxHeap' = md.idxHeap
               /\ propHeap' = md.propHeap
          ELSE UNCHANGED <<segments, objects, idxHeap, propHeap>>
       /\ currentOffset' = next
       /\ IF seg.leadIn.nextSegmentOffset = segmentIncomplete
          THEN /\ IsIncomplete' = TRUE
               /\ pc' = "project"
               /\ pos' = after
               /\ UNCHANGED <<openErr, srcClosed>>
          ELSE IF next >= file.size
          THEN /\ IsIncomplete' = FALSE
               /\ pc' = "project"
               /\ pos' = after
               /\ UNCHANGED <<openErr, srcClosed>>
          ELSE IF file.isIndex
          THEN /\ pos' = after
               /\ UNCHANGED <<pc, IsIncomplete, openErr, srcClosed>>
          ELSE IF next < 0
          THEN /\ OpenFails("error")
               /\ UNCHANGED <<pos, IsIncomplete>>
          ELSE /\ pos' = next
               /\ UNCHANGED <<pc, IsIncomplete, openErr, srcClosed>>

scanMetadata(seg, md) ==
  scanned(seg, md,
          ToInt64(currentOffset + ToInt64(seg.leadIn.nextSegmentOffset) + leadInSize),
          pos + leadInSize + (IF md.err = "nil" THEN MetaLen(seg.records) ELSE 0))

scanLeadIn(seg) ==
  scanMetadata(seg, IF seg.leadIn.containsMetadata
                    THEN readSegmentMetadata(currentOffset, seg.leadIn, seg.records,
                                             Len(segments))
                    ELSE [err |-> "skip"])

\* a Segment record with its pointers followed: for each object the index
\* record that object.index points to ("nil" if none) and the property map
\* that object.properties refers to
ResolveObject(o, ih, ph) ==
  [index |-> IF o.index = 0 THEN "nil" ELSE ih[o.index],
   properties |-> ph[o.properties]]

ResolveSegment(seg, ih, ph) ==
  [p \in DOMAIN seg.metadata.objects |-> ResolveObject(seg.metadata.objects[p], ih, ph)]

\* one iteration of the scan loop of readMetadata
\* the model follows the loop for MaxScan segments
ScanSegment ==
  /\ pc = "scan"
  /\ Len(segments) < MaxScan
  /\ \E li \in {readSegmentLeadIn(pos)} :
       IF li.err # "nil"
       THEN /\ OpenFails(li.err)
            /\ UNCHANGED <<pos, currentOffset, segments, objects, idxHeap, propHeap,
                           IsIncomplete>>
       ELSE scanLeadIn(file.segs[li.k])
  /\ hist' = [hist EXCEPT !.appended =
                IF Len(segments') > Len(segments)
                THEN Append(@, ResolveSegment(segments'[Len(segments')], idxHeap', propHeap'))
                ELSE @]
  /\ UNCHANGED <<call, ret, shape, file, Groups, Properties, rd, reads, other>>

\* ------------------------------------------------ readMetadata: projection
\* the chunk catalog of one channel (file.go, lines 193-214)
RECURSIVE chunksOf(_, _)
chunksOf(path, k) ==
  IF k > Len(segments) THEN <<>>
  ELSE LET segment == segments[k]
           md == segment.metadata
           has == /\ segment.leadIn.containsRawData
                  /\ path \in DOMAIN md.objects
                  /\ md.objects[path].index # 0
           index == idxHeap[md.objects[path].index]
       IN (IF has
           THEN [chunkIdx \in 1..md.numChunks |->
                  [offset |-> ToInt64(index.offset + ToInt64(U64((chunkIdx - 1) * md.chunkSize))),
                   isInterleaved |-> segment.leadIn.isInterleaved,
                   order |-> segment.leadIn.byteOrder,
                   size |-> index.totalSize,
                   numValues |-> index.numValues,
                   stride |-> index.stride]]
           ELSE <<>>)
          \o chunksOf(path, k + 1)

RECURSIVE SumNumValues(_)
SumNumValues(chunks) ==
  IF chunks = <<>> THEN 0 ELSE U64(Head(chunks).numValues + SumNumValues(Tail(chunks)))

\* the loop over File.objects, in the order the map iteration happens to take
RECURSIVE projectObjects(_, _)
projectObjects(st, order) ==
  IF order = <<>> \/ st.err # "nil" THEN st
  ELSE LET obj == objects[Head(order)]
           pp == parsePath(obj.path)
           props == propHeap[obj.properties]
       IN IF pp.err # "nil" THEN [st EXCEPT !.err = pp.err]
          ELSE IF pp.group = <<>>
          THEN projectObjects([st EXCEPT !.Properties = mapsCopy(@, props)], Tail(order))
          ELSE IF pp.channel = <<>>
          THEN projectObjects(
                 [st EXCEPT !.Groups = [g \in DOMAIN @ \cup {pp.group} |->
                    IF g = pp.group
                    THEN [Name |-> pp.group, Properties |-> props,
                          Channels |-> [c \in {} |-> 0]]
                    ELSE @[g]]],
                 Tail(order))
          ELSE IF obj.index = 0 THEN [st EXCEPT !.err = "panic"]
          ELSE LET chunks == chunksOf(obj.path, 1)
                   ch == [Name |-> pp.channel, GroupName |-> pp.group,
                          DataType |-> idxHeap[obj.index].dataType,
                          Properties |-> props, path |-> obj.path,
                          dataChunks |-> chunks,
                          totalNumValues |-> SumNumValues(chunks)]
               IN projectObjects(
                    [st EXCEPT !.channels = [c \in DOMAIN @ \cup {pp.channel} |->
                       IF c = pp.channel THEN ch ELSE @[c]]],
                    Tail(order))

\* the loop that attaches the staged channels to their groups
attachChannels(st) ==
  IF \E c \in DOMAIN st.channels : st.channels[c].GroupName \notin DOMAIN st.Groups
  THEN [st EXCEPT !.err = "ErrInvalidFileFormat"]
  ELSE [st EXCEPT !.Groups = [g \in DOMAIN @ |->
          [@[g] EXCEPT !.Channels =
             [c \in {d \in DOMAIN st.channels : st.channels[d].GroupName = g} |->
                st.channels[c]]]]]

Orders(S) == {o \in [1..Cardinality(S) -> S] : \A i, j \in DOMAIN o : i # j => o[i] # o[j]}

Project ==
  /\ pc = "project"
  /\ \E order \in Orders(DOMAIN objects) :
       LET st0 == [Properties |-> Properties, Groups |-> Groups,
                   channels |-> [c \in {} |-> 0], err |-> "nil"]
           st1 == projectObjects(st0, order)
           st == IF st1.err = "nil" THEN attachChannels(st1) ELSE st1
       IN IF st.err # "nil"
          THEN OpenFails(st.err) /\ UNCHANGED <<Groups, Properties>>
          ELSE /\ pc' = "ready"
               /\ Groups' = st.Groups
               /\ Properties' = st.Properties
               /\ UNCHANGED <<openErr, srcClosed>>
  /\ hist' = [hist EXCEPT !.openPos = pos]
  /\ UNCHANGED <<call, ret, shape, file, pos, currentOffset, segments, objects, idxHeap, propHeap,
                 IsIncomplete, rd, reads, other>>

\* ---------------------------------------------------------- byte source
\* r.Read(p) with len(p) = n at position p0: [n, err, bytes]
srcRead(p0, n) ==
  IF n = 0 /\ file.how # "NewReader" THEN [n |-> 0, err |-> "nil", bytes |-> <<>>]
  ELSE IF p0 >= file.size THEN [n |-> 0, err |-> "EOF", bytes |-> <<>>]
  ELSE LET m == Min(n, file.size - p0)
       IN [n |-> m, err |-> "nil", bytes |-> [i \in 1..m |-> file.bytes[p0 + i]]]

\* io.ReadFull(r, buf) with len(buf) = n
ioReadFull(p0, n) ==
  IF n = 0 THEN [n |-> 0, err |-> "nil", bytes |-> <<>>]
  ELSE IF p0 >= file.size THEN [n |-> 0, err |-> "EOF", bytes |-> <<>>]
  ELSE LET m == Min(n, file.size - p0)
       IN [n |-> m, err |-> IF m < n THEN "ErrUnexpectedEOF" ELSE "nil",
           bytes |-> [i \in 1..m |-> file.bytes[p0 + i]]]

\* copy b into arr from (0-based) index start
WriteAt(arr, start, b) ==
  [j \in DOMAIN arr |-> IF j > start /\ j <= start + Len(b) THEN b[j - start] ELSE arr[j]]

Slice(arr, start, end) == [j \in 1..(end - start) |-> arr[start + j]]

\* ---------------------------------------------------------- stream reader
IdleReader == [status |-> "idle", cancelled |-> FALSE]

Live == rd.status \in {"chunk", "batch"}

\* the iterators a consumer ranges over: BatchStreamReader itself, or
\* StreamReader, which unwraps its batches
Kinds == {"batch", "value"}

\* BatchStreamReader, lines 67-89: options, batch size, buffers
newReader(g, c, bs, kind) ==
  LET ch == Groups[g].Channels[c]
      optBatchSize == IF bs # 0 THEN bs
                      ELSE IF ch.DataType = "String" THEN defaultStringBatchSize
                      ELSE defaultBatchSize
      batchSize == Min(optBatchSize, ch.totalNumValues)
      dataSize == Size(ch.DataType)
  IN [status |-> IF ch.dataChunks = <<>> THEN "done" ELSE "chunk",
      kind |-> kind, cancelled |-> FALSE,
      group |-> g, channel |-> c, optBatchSize |-> bs,
      dataType |-> ch.DataType, batchSize |-> batchSize, dataSize |-> dataSize,
      buf |-> [arr |-> Fill(batchSize * dataSize, 0), len |-> batchSize * dataSize],
      bufLen |-> batchSize * dataSize,
      chunkIdx |-> 1, bytesRead |-> 0, strOffsets |-> <<0>>,
      valuesProcessed |-> 0, out |-> <<>>, err |-> "nil", eof |-> "none"]

\* a consumer starts to range over an iterator of a channel
\* channel reads are explored on data files; an index file has no raw data
BeginRead(g, c, bs, kind) ==
  /\ pc = "ready"
  /\ ~file.isIndex
  /\ rd.status \in {"idle", "done", "error", "stopped"}
  /\ reads < MaxReads
  /\ rd' = newReader(g, c, bs, kind)
  /\ reads' = reads + 1
  /\ other' = IdleReader
  /\ UNCHANGED <<call, ret, hist, shape, file, pc, pos, srcClosed>>
  /\ UNCHANGED fileVars

CurChunk(r) == Groups[r.group].Channels[r.channel].dataChunks[r.chunkIdx]
NumChunksOfRead(r) == Len(Groups[r.group].Channels[r.channel].dataChunks)

\* where the byte source reported end-of-file: in the final batch of the
\* final chunk, or elsewhere (history, for the properties only)
EofPlace(r, finalBatch) ==
  IF r.chunkIdx >= NumChunksOfRead(r) /\ finalBatch THEN "final" ELSE "other"

NoteEof(r, e, finalBatch) ==
  IF e \in {"EOF", "ErrUnexpectedEOF"} /\ r.eof = "none"
  THEN [r EXCEPT !.eof = EofPlace(r, finalBatch)] ELSE r

\* yield(nil, err); return
YieldError(r, e) == [r EXCEPT !.status = "error", !.err = e]

\* a Seek that leaves the byte source where it is
SeekNowhere(p, offset) == p

\* r.Seek(offset, io.SeekStart), line 92: the new position
SeekStart(p, offset) == offset

\* BatchStreamReader, lines 91-118: seek to the chunk, read the string
\* offsets; r is the reader's state and p the position of the byte source
startChunk(r, p) ==
  LET chunk == CurChunk(r)
      at == SeekStart(p, chunk.offset)
      tableLen == chunk.numValues * 4
      got == srcRead(at, tableLen)
      table == WriteAt(Fill(tableLen, 0), 0, got.bytes)
  IN IF chunk.offset < 0
     THEN [rd |-> YieldError(r, "error"), pos |-> p]
     ELSE IF r.dataType = "String"
     THEN IF got.err # "nil"
          THEN [rd |-> NoteEof(YieldError(r, got.err), got.err, TRUE), pos |-> at]
          ELSE [pos |-> at + got.n,
                rd |-> [r EXCEPT !.status = "batch", !.bytesRead = got.n,
                                 !.valuesProcessed = 0,
                                 !.strOffsets = <<0>> \o
                                    [i \in 1..chunk.numValues |->
                                       orderUint(Slice(table, (i - 1) * 4, i * 4), 4,
                                                 chunk.order)]]]
     ELSE [pos |-> at,
           rd |-> [r EXCEPT !.status = "batch", !.bytesRead = 0,
                            !.valuesProcessed = 0, !.strOffsets = <<0>>]]

StartChunk ==
  /\ rd.status = "chunk"
  /\ \E o \in {startChunk(rd, pos)} : rd' = o.rd /\ pos' = o.pos
  /\ UNCHANGED <<call, ret, hist, shape, file, pc, srcClosed, reads, other>>
  /\ UNCHANGED fileVars

\* the interleaved read loop, lines 176-190; i counts as in the source
RECURSIVE readInterleaved(_, _, _, _, _, _, _)
readInterleaved(i, p0, arr, len, n, chunk, dataSize) ==
  IF i >= len THEN [err |-> "nil", pos |-> p0, arr |-> arr, n |-> n]
  ELSE LET p1 == IF i > 0 THEN p0 + chunk.stride ELSE p0
           lo == i * dataSize
           hi == (i + 1) * dataSize
           r == srcRead(p1, dataSize)
       IN IF p1 < 0 THEN [err |-> "error", pos |-> p0, arr |-> arr, n |-> n]
          ELSE IF hi > Len(arr) THEN [err |-> "panic", pos |-> p1, arr |-> arr, n |-> n]
          ELSE IF r.err # "nil" THEN [err |-> r.err, pos |-> p1, arr |-> arr, n |-> n]
          ELSE readInterleaved(i + dataSize, p1 + r.n, WriteAt(arr, lo, r.bytes),
                               len, n + r.n, chunk, dataSize)

\* the bounds of value i (0-based) of a batch inside buf, lines 220-230
ValueBounds(r, i) ==
  IF r.dataType = "String"
  THEN [lo |-> r.strOffsets[i + 1], hi |-> r.strOffsets[i + 2]]
  ELSE [lo |-> i * r.dataSize, hi |-> (i + 1) * r.dataSize]

\* leave the inner loop: on to the next chunk, or the end of the sequence
NextChunk(r) ==
  [r EXCEPT !.status = IF r.chunkIdx >= NumChunksOfRead(r) THEN "done" ELSE "chunk",
            !.chunkIdx = r.chunkIdx + 1]

\* no batch is handed to the consumer in this iteration
NoBatch(r, p) == [rd |-> r, pos |-> p, yield |-> FALSE, batch |-> <<>>]

\* one iteration of the batch loop, lines 120-240, up to the yield of a
\* batch; r is the reader's state and p the position of the byte source
readBatch(r, p) ==
  LET chunk == CurChunk(r)
      bytesLeft == U64(chunk.size - r.bytesRead)
      numValuesLeft == IF chunk.numValues > r.valuesProcessed
                       THEN chunk.numValues - r.valuesProcessed ELSE 0
      requiredNumValues == Min(r.batchSize, numValuesLeft)
      requiredBufLen == U64(r.strOffsets[r.valuesProcessed + requiredNumValues + 1]
                            - r.strOffsets[r.valuesProcessed + 1])
      isString == r.dataType = "String"
      bufLen == IF isString THEN requiredBufLen ELSE r.bufLen
      arr0 == IF isString /\ Len(r.buf.arr) < requiredBufLen
              THEN Fill(requiredBufLen, 0) ELSE r.buf.arr
      len == IF bufLen > bytesLeft THEN bytesLeft ELSE bufLen
      full == ioReadFull(p, len)
      inter == readInterleaved(0, p, arr0, len, 0, chunk, r.dataSize)
      res == IF ~chunk.isInterleaved
             THEN [err |-> full.err, pos |-> p + full.n,
                   arr |-> WriteAt(arr0, 0, full.bytes), n |-> full.n]
             ELSE inter
      numValuesRead == Min(r.batchSize, chunk.numValues - r.valuesProcessed)
      bad == \E i \in 0..(numValuesRead - 1) :
               ValueBounds(r, i).hi > Len(res.arr) \/ ValueBounds(r, i).lo > ValueBounds(r, i).hi
      batch == [i \in 1..numValuesRead |->
                  interpret(r.dataType,
                            Slice(res.arr, ValueBounds(r, i - 1).lo, ValueBounds(r, i - 1).hi),
                            chunk.order)]
      finalBatch == r.valuesProcessed + r.batchSize >= chunk.numValues
      rd1 == NoteEof([r EXCEPT !.buf = [arr |-> res.arr, len |-> len],
                               !.bufLen = bufLen,
                               !.bytesRead = U64(r.bytesRead + res.n)],
                     res.err, finalBatch)
  IN IF bytesLeft = 0
     THEN NoBatch(NextChunk(r), p)
     ELSE IF len > Len(arr0)
     THEN NoBatch([r EXCEPT !.status = "panic"], p)
     ELSE IF chunk.isInterleaved /\ r.dataSize = 0
     THEN NoBatch(YieldError(r, "ErrInvalidFileFormat"), p)
     ELSE IF chunk.isInterleaved /\ res.err = "panic"
     THEN NoBatch([rd1 EXCEPT !.status = "panic"], res.pos)
     ELSE IF chunk.isInterleaved /\ res.err # "nil"
     THEN NoBatch([rd1 EXCEPT !.status = "error", !.err = res.err], res.pos)
     ELSE IF res.err \in {"EOF", "ErrUnexpectedEOF"}
     THEN NoBatch(NextChunk(rd1), res.pos)
     ELSE IF bad
     THEN NoBatch([rd1 EXCEPT !.status = "panic"], res.pos)
     ELSE [rd |-> [rd1 EXCEPT !.valuesProcessed = r.valuesProcessed + numValuesRead],
           pos |-> res.pos, yield |-> TRUE, batch |-> batch]

\* what the consumer can answer to a batch of n values: 0 is "go on" to the
\* end of the batch; k >= 1 is false from its yield callback at the k-th call
\* made for this batch (StreamReader makes one call per value, lines 39-43,
\* BatchStreamReader one for the batch, line 241)
Answers(kind, n) == 0..(IF kind = "value" THEN n ELSE 1)

\* what the consumer has received once the batch is handed out
Handed(r, batch, stop) ==
  IF r.kind = "value" /\ stop > 0 THEN Append(r.out, SubSeq(batch, 1, stop))
  ELSE Append(r.out, batch)

\* an iterator that goes on after its consumer has said stop
afterYieldGoesOn(r, stopped) == [r EXCEPT !.cancelled = stopped]

\* if !yield(...) { return }, lines 241-243 and 40-42
afterYield(r, stopped) ==
  IF stopped THEN [r EXCEPT !.cancelled = TRUE, !.status = "stopped"] ELSE r

\* the batch loop goes on while the model follows it: a loop that yields
\* empty batches without advancing never ends, and the model follows it for
\* as many batches as the channel has values
Followed(r) == Len(r.out) <= Groups[r.group].Channels[r.channel].totalNumValues

\* one iteration of the batch loop, lines 120-244, with the consumer's answer
ReadBatch ==
  /\ rd.status = "batch"
  /\ Followed(rd)
  /\ \E o \in {readBatch(rd, pos)} :
       /\ pos' = o.pos
       /\ IF o.yield
          THEN \E stop \in Answers(rd.kind, Len(o.batch)) :
                 rd' = afterYield([o.rd EXCEPT !.out = Handed(rd, o.batch, stop)], stop > 0)
          ELSE rd' = o.rd
  /\ UNCHANGED <<call, ret, hist, shape, file, pc, srcClosed, reads, other>>
  /\ UNCHANGED fileVars

\* a read sequence run to its end by a consumer that never stops, from the
\* reader state r with the byte source at p
RECURSIVE runToEnd(_, _)
runToEnd(r, p) ==
  IF r.status = "chunk"
  THEN LET o == startChunk(r, p) IN runToEnd(o.rd, o.pos)
  ELSE IF r.status = "batch" /\ Followed(r)
  THEN LET o == readBatch(r, p)
       IN runToEnd(IF o.yield THEN [o.rd EXCEPT !.out = Append(r.out, o.batch)] ELSE o.rd,
                   o.pos)
  ELSE r

\* ------------------------------------------------ two live read sequences
\* a set-up that refuses to start while another read sequence is live
beginLiveGuarded(live, g, c, bs, kind) ==
  IF live.status \in {"chunk", "batch"}
  THEN YieldError(newReader(g, c, bs, kind), "error")
  ELSE newReader(g, c, bs, kind)

\* BatchStreamReader, lines 66-96: the set-up of a read sequence looks at
\* its own channel and options only, whatever else is live on the File
beginLive(live, g, c, bs, kind) == newReader(g, c, bs, kind)

\* one pull on a read sequence: it runs until it yields once, or ends
RECURSIVE pullOnce(_, _)
pullOnce(r, p) ==
  IF r.status = "chunk"
  THEN LET o == startChunk(r, p) IN pullOnce(o.rd, o.pos)
  ELSE IF r.status = "batch" /\ Followed(r)
  THEN LET o == readBatch(r, p)
       IN IF o.yield
          THEN [rd |-> [o.rd EXCEPT !.out = Append(r.out, o.batch)], pos |-> o.pos]
          ELSE pullOnce(o.rd, o.pos)
  ELSE [rd |-> r, pos |-> p]

\* while rd is suspended between two batches of one chunk, the consumer
\* starts a second read sequence on the same File and pulls on it once
PullOther(g, c, bs) ==
  /\ pc = "ready"
  /\ rd.status = "batch" /\ rd.out # <<>>
  /\ 0 < rd.bytesRead /\ rd.bytesRead < CurChunk(rd).size
  /\ other.status = "idle"
  /\ \E o \in {pullOnce(beginLive(rd, g, c, bs, "batch"), pos)} :
       other' = o.rd /\ pos' = o.pos
  /\ UNCHANGED <<call, ret, hist, shape, file, pc, srcClosed, rd, reads>>
  /\ UNCHANGED fileVars

\* ------------------------------------------------------------------ Close
\* File.Close: closes the byte source when it is an *os.File
Close ==
  /\ pc = "ready"
  /\ ~Live
  /\ pc' = "closed"
  /\ srcClosed' = (file.how \in {"Open", "NewOsFile"})
  /\ UNCHANGED <<call, ret, hist, shape, file, pos, rd, reads, other>>
  /\ UNCHANGED fileVars

Init ==
  /\ shape \in Inputs
  /\ file = BuildFile(shape)
  /\ pc = "scan"
  /\ pos = 0
  /\ currentOffset = 0
  /\ segments = <<>>
  /\ objects = [p \in {} |-> 0]
  /\ idxHeap = <<>>
  /\ propHeap = <<>>
  /\ Groups = [g \in {} |-> 0]
  /\ Properties = EmptyMap
  /\ IsIncomplete = FALSE
  /\ openErr = "nil"
  /\ srcClosed = FALSE
  /\ rd = IdleReader
  /\ reads = 0
  /\ other = IdleReader
  /\ call = NoCall
  /\ ret = NoCall
  /\ hist = NoHistory

Next ==
  \/ ScanSegment
  \/ Project
  \/ \E g \in DOMAIN Groups : \E c \in DOMAIN Groups[g].Channels :
       \E bs \in 0..MaxBatch : \E kind \in Kinds : BeginRead(g, c, bs, kind)
  \/ StartChunk
  \/ ReadBatch
  \/ \E g \in DOMAIN Groups : \E c \in DOMAIN Groups[g].Channels :
       \E bs \in 1..MaxBatch : PullOther(g, c, bs)
  \/ Close

Spec == Init /\ [][Next]_vars

\* ------------------------------------------------------- pure functions
\* The helpers that take no File are examined one call at a time: the
\* initial state draws a call, the action applies the function.
PathAlphabet == {"/", "'", "a"}
Strings(n) == UNION {[1..k -> PathAlphabet] : k \in 0..n}

\* the text of a component as a writer puts it between quotes
RECURSIVE Escape(_)
Escape(text) ==
  IF text = <<>> THEN <<>>
  ELSE (IF Head(text) = "'" THEN <<"'", "'">> ELSE <<Head(text)>>) \o Escape(Tail(text))

RECURSIVE Encode(_)
Encode(comps) ==
  IF comps = <<>> THEN <<>>
  ELSE <<"/", "'">> \o Escape(Head(comps)) \o <<"'">> \o Encode(Tail(comps))

EncodePath(comps) == IF comps = <<>> THEN <<"/">> ELSE Encode(comps)

CompLists == UNION {[1..k -> Strings(MaxName)] : k \in 0..2}

\* paths of three components, longer than a writer of this format makes them
LongLists == [1..3 -> Strings(1)]

PathCalls ==
  {[fn |-> "parsePath", arg |-> a] :
     a \in Strings(MaxPathLen) \cup {EncodePath(cs) : cs \in CompLists \cup LongLists}}

\* ---- Timestamp.AsTime
\* the epoch constant the package declares: 1904-01-01 as a Unix time
tdmsEpoch == -2082844800

\* floor(r * 10^9 / 2^WordBits), as ns.Mul(ns, 1e9) and ns.Rsh(ns, 64) give it
\* on big.Int; 10^9 = 2^9 * 5^9, and the product is taken in two parts so
\* that no intermediate value leaves the range of the checker's integers
MulShr(r) ==
  LET d == 2 ^ (WordBits - 9)
  IN (r \div d) * (5 ^ 9) + ((r % d) * (5 ^ 9)) \div d

\* time.Unix(sec, nsec) with 0 <= nsec < 10^9: the instant sec.nsec
timeUnix(sec, nsec) == [unix |-> sec, nsec |-> nsec]

AsTime(t) == timeUnix(t.Timestamp, MulShr(t.Remainder))

TimestampSeconds == {-1, 0, 1, 60, 0 - tdmsEpoch, 1 - tdmsEpoch}
Remainders == {0, 1, Mod64 \div 4, Mod64 \div 2, Mod64 \div 2 + 1, Mod64 - 1}

TimeCalls ==
  {[fn |-> "AsTime", arg |-> [Timestamp |-> sec, Remainder |-> r]] :
     sec \in TimestampSeconds, r \in Remainders}

ApplyAsTime ==
  /\ call.fn = "AsTime" /\ ret = Pending
  /\ ret' = AsTime(call.arg)
  /\ UNCHANGED <<call, hist, shape, file, pc, pos, srcClosed, rd, reads, other>>
  /\ UNCHANGED fileVars

\* ---- Float128
Reverse(b) == [i \in 1..Len(b) |-> b[Len(b) + 1 - i]]

\* slices.Reverse for big-endian input, then the conversion to [16]byte
interpretFloat128(bytes, order) == IF order = "BE" THEN Reverse(bytes) ELSE bytes

isZeroMantissa(mantissaBits) == \A i \in DOMAIN mantissaBits : mantissaBits[i] = 0

\* The big.Float that AsBigFloat returns, held exactly as its sign, its binary
\* exponent and the 112 fraction bits: the value is
\* (-1)^neg * (lead + mantissa / 2^112) * 2^exp with lead 1 for a normal
\* number and 0 for a subnormal one; nil is the NaN outcome.
AsBigFloat(f) ==
  LET sign == (f[1] \div 128) % 2
      exponent == (f[1] % 128) * 256 + f[2]
      mantissaBits == SubSeq(f, 3, 16)
  IN IF exponent = 32767
       THEN IF isZeroMantissa(mantissaBits) THEN [kind |-> "inf", neg |-> sign = 1]
            ELSE [kind |-> "nil"]
     ELSE IF exponent = 0
       THEN IF isZeroMantissa(mantissaBits) THEN [kind |-> "zero"]
            ELSE [kind |-> "subnormal", neg |-> sign = 1, exp |-> -16382,
                  mantissa |-> mantissaBits]
     ELSE [kind |-> "normal", neg |-> sign = 1, exp |-> exponent - 16383,
           mantissa |-> mantissaBits]

\* the decoder of a stored value: the bytes as read, then the conversion
decodeQuad(bytes, order) == AsBigFloat(interpretFloat128(bytes, order))

Zeros(n) == [i \in 1..n |-> 0]
\* 16 bytes of a quad, most significant byte first
QuadBytes(b0, b1, b2, b15) == <<b0, b1, b2>> \o Zeros(12) \o <<b15>>

QuadSamples ==
  {QuadBytes(b0, b1, b2, b15) :
     b0 \in {0, 63, 64, 127, 191, 255}, b1 \in {0, 254, 255}, b2 \in {0, 128}, b15 \in {0, 1}}

QuadCalls ==
  {[fn |-> "decodeQuad", arg |-> [bytes |-> b, order |-> o]] :
     b \in QuadSamples \cup {Reverse(q) : q \in QuadSamples}, o \in {"BE", "LE"}}

ApplyDecodeQuad ==
  /\ call.fn = "decodeQuad" /\ ret = Pending
  /\ ret' = decodeQuad(call.arg.bytes, call.arg.order)
  /\ UNCHANGED <<call, hist, shape, file, pc, pos, srcClosed, rd, reads, other>>
  /\ UNCHANGED fileVars

PureCalls == PathCalls \cup TimeCalls \cup QuadCalls

ApplyParsePath ==
  /\ call.fn = "parsePath" /\ ret = Pending
  /\ ret' = parsePath(call.arg)
  /\ UNCHANGED <<call, hist, shape, file, pc, pos, srcClosed, rd, reads, other>>
  /\ UNCHANGED fileVars

InitPure ==
  /\ call \in PureCalls
  /\ ret = Pending
  /\ hist = NoHistory
  /\ shape = NoCall
  /\ file = NoCall
  /\ pc = "none"
  /\ pos = 0
  /\ currentOffset = 0
  /\ segments = <<>>
  /\ objects = [p \in {} |-> 0]
  /\ idxHeap = <<>>
  /\ propHeap = <<>>
  /\ Groups = [g \in {} |-> 0]
  /\ Properties = EmptyMap
  /\ IsIncomplete = FALSE
  /\ openErr = "nil"
  /\ srcClosed = FALSE
  /\ rd = IdleReader
  /\ reads = 0
  /\ other = IdleReader

NextPure ==
  \/ ApplyParsePath
  \/ ApplyAsTime
  \/ ApplyDecodeQuad

SpecPure == InitPure /\ [][NextPure]_vars

\* ============================================================ properties
NameG == <<"G">>
NameC == <<"C">>

Opened == pc \in {"ready", "closed"}
OpenEnded == pc \in {"ready", "closed", "failed", "panic"}
ReadEnded == rd.status \in {"done", "error", "panic"}
ReadPath == Groups[rd.group].Channels[rd.channel].path
ReadEndedOn(path) == ReadEnded /\ ReadPath = path
Result == Flatten(rd.out)

\* the samples of a channel as the file stores them: segment by segment,
\* chunk by chunk, sample by sample
ExpectedSeg(s, k, path) ==
  LET act == RefActive(s, k)
      a == act[CHOOSE i \in Find(act, path) : TRUE]
      base == WrittenBefore(s, k, path)
  IN IF Find(act, path) = {} THEN <<>>
     ELSE Flatten([j \in 1..SegChunks(s, k) |->
            [i \in 1..a.numValues |->
               SampleValue(a, base + (j - 1) * a.numValues + i - 1, i)]])

Expected(s, path) == Flatten([k \in 1..NumSegs(s) |-> ExpectedSeg(s, k, path)])

\* ---- C1
C1Case ==
  /\ NumSegs(shape) = 2 /\ shape.hdr1 = HeaderIndex
  /\ shape.tC # "String" /\ shape.n1 >= 1
  /\ ~shape.more[1].nol
  /\ shape.more[1].cMode \in {"absent", HeaderMatchesPrevious}
  /\ (shape.more[1].dMode = HeaderMatchesPrevious => shape.dKind # "none")

\* C1: two segments carrying the same fixed-width channel, the second with
\* new-object-list unset and the channel re-listed as matches-previous or not
\* re-listed: the channel inherits segment 1's index in segment 2, NumValues
\* is the sum of both sample counts, and reading the channel returns segment
\* 1's samples followed by segment 2's.
C1_TwoSegmentsConcatenate ==
  C1Case =>
    /\ pc \notin {"failed", "panic"}
    /\ Opened =>
         /\ segments[2].metadata.objects[PathC].index # 0
         /\ idxHeap[segments[2].metadata.objects[PathC].index].numValues = shape.n1
         /\ Groups[NameG].Channels[NameC].totalNumValues = 2 * shape.n1
    /\ (Opened /\ ReadEndedOn(PathC)) =>
         (rd.status = "done" /\ Result = Expected(shape, PathC))

\* ---- C2
C2Case ==
  /\ NumSegs(shape) = 1 /\ shape.hdr1 = HeaderIndex /\ shape.cut = 0
  /\ shape.interleaved /\ shape.dKind # "none" /\ shape.tC # "String"

WidthOfOthers(path) == IF path = PathC THEN Size(shape.dKind) ELSE Size(shape.tC)

\* C2: in an interleaved segment of k fixed-width channels with n samples
\* each, reading the j-th channel yields samples j, j+k, j+2k, ... of the raw
\* sample sequence, and the bytes skipped between two consecutive samples of
\* a channel are the summed width of one value of every other channel.
C2_InterleavedRead ==
  C2Case =>
    /\ pc \notin {"failed", "panic"}
    /\ Opened =>
         \A c \in DOMAIN Groups[NameG].Channels :
           \A i \in DOMAIN Groups[NameG].Channels[c].dataChunks :
             Groups[NameG].Channels[c].dataChunks[i].stride
               = WidthOfOthers(Groups[NameG].Channels[c].path)
    /\ (Opened /\ ReadEnded) =>
         (rd.status = "done" /\ Result = Expected(shape, ReadPath))

\* ---- C3
C3Case ==
  /\ NumSegs(shape) = 1 /\ shape.hdr1 = HeaderIndex /\ shape.cut = 0
  /\ shape.tC = "String" /\ ~shape.interleaved

\* C3: for every String chunk of n values with end offsets e[1..n], the
\* reader yields exactly n strings and the i-th is the payload bytes
\* e[i-1]..e[i], whatever the batch size and also for empty strings.
C3_StringChunks ==
  (C3Case /\ Opened /\ ReadEndedOn(PathC)) =>
    (rd.status = "done" /\ Result = Expected(shape, PathC))

\* ---- C4
\* C4: for every channel of a successfully opened file the streaming reader
\* yields, chunk by chunk in catalog order, exactly each chunk's num_values
\* samples in stored order, so the samples come out in file order and their
\* number is NumValues().
C4_StreamInFileOrder ==
  (Opened /\ shape.cut = 0 /\ ReadEnded) =>
    /\ rd.status = "done"
    /\ Result = Expected(shape, ReadPath)
    /\ Len(Result) = Groups[rd.group].Channels[rd.channel].totalNumValues

\* ---- C5
C5Case ==
  /\ NumSegs(shape) = 1 /\ shape.hdr1 = HeaderIndex /\ ~shape.sentinel
  /\ shape.cut > 0 /\ shape.tC # "String" /\ ~shape.interleaved /\ shape.n1 >= 1

\* the samples of channel C that are still whole in the truncated file
PresentC ==
  SubSeq(Expected(shape, PathC), 1,
         (Len(SegData(shape, 1)) - shape.cut) \div Size(shape.tC))

\* C5: a single-segment file with a real next_segment_offset, cut off inside
\* its raw data, opens with IsIncomplete = TRUE and the channel present, and
\* streaming the channel yields the samples still in the file, in order,
\* then ends without an error.
C5_TruncatedFile ==
  C5Case =>
    /\ pc \notin {"failed", "panic"}
    /\ Opened => (IsIncomplete /\ NameC \in DOMAIN Groups[NameG].Channels)
    /\ (Opened /\ ReadEndedOn(PathC)) => (rd.status = "done" /\ Result = PresentC)

\* ---- C6
\* C6: File.Close closes the byte source if and only if the File was created
\* by Open; on a File created by New it leaves the caller's reader open, an
\* *os.File included.
C6_CloseOnlyWhatOpenOpened ==
  pc = "closed" => (srcClosed <=> file.how = "Open")

\* ---- C7
RECURSIVE RecordsUpTo(_, _)
RecordsUpTo(s, k) == IF k = 0 THEN <<>> ELSE RecordsUpTo(s, k - 1) \o RecordsOf(s, k)

\* the left-to-right merge of the records of one path: every property name
\* any of them sets, with the value of the last record that sets it
MergedProps(s, path) ==
  LET recs == RecordsUpTo(s, NumSegs(s))
      mine == {i \in DOMAIN recs : recs[i].path = path}
      setting(name) == {i \in mine : name \in DOMAIN recs[i].props}
      last(name) == CHOOSE i \in setting(name) : \A j \in setting(name) : j <= i
  IN [name \in UNION {DOMAIN recs[i].props : i \in mine} |-> recs[last(name)].props[name]]

\* C7: after open, the properties exposed on the File, on every Group and on
\* every Channel are the left-to-right merge of that path's records over all
\* segments in file order: a property not mentioned again keeps its earlier
\* value, a property set again has the later value.
C7_PropertiesMerged ==
  Opened =>
    /\ Properties = MergedProps(shape, PathRoot)
    /\ \A g \in DOMAIN Groups :
         /\ Groups[g].Properties = MergedProps(shape, Quoted(g))
         /\ \A c \in DOMAIN Groups[g].Channels :
              Groups[g].Channels[c].Properties
                = MergedProps(shape, Groups[g].Channels[c].path)

\* a file whose second segment re-lists the channel and sets p again, leaving
\* r unmentioned: the channel shows the later p and the earlier r
C7_Witness ==
  /\ Opened /\ NumSegs(shape) = 2
  /\ shape.more[1].prop = "p" /\ shape.more[1].cMode # "absent"
  /\ NameG \in DOMAIN Groups /\ NameC \in DOMAIN Groups[NameG].Channels
  /\ Groups[NameG].Channels[NameC].Properties = ("p" :> 2) @@ ("r" :> 1)
  /\ Properties = ("p" :> 2) @@ ("r" :> 1)

\* ---- C8
\* C8: end-of-file met while fetching the final batch of the channel's final
\* chunk ends the read sequence without an error, in every layout; an
\* end-of-file met anywhere else is surfaced as an error.
C8_EofOnlyCleanAtTail ==
  (Opened /\ rd.status \in {"done", "error"}) =>
    /\ rd.eof = "final" => rd.status = "done"
    /\ rd.eof = "other" => rd.status = "error"

\* ---- C9
C9Case ==
  /\ NumSegs(shape) = 1 /\ shape.hdr1 = HeaderIndex /\ shape.cut = 0
  /\ shape.n1 = 0

\* C9: a channel whose every index declares 0 samples: open succeeds and
\* reading all of it returns an empty result and no error, also when it is
\* the only object with an index in its segment.
C9_EmptyChannel ==
  C9Case =>
    /\ pc \notin {"failed", "panic"}
    /\ (Opened /\ ReadEndedOn(PathC)) => (rd.status = "done" /\ Result = <<>>)

\* ---- C10
C10Case ==
  \/ shape.hdr1 = HeaderMatchesPrevious
  \/ /\ NumSegs(shape) = 2 /\ shape.dKind = "none" /\ shape.n1 >= 1
     /\ shape.more[1].dMode = HeaderMatchesPrevious

\* C10: a record with the matches-previous header whose path no prior segment
\* holds (also in the very first segment) makes open fail with an error
\* matching InvalidFileFormat; open neither succeeds nor crashes.
C10_MatchesPreviousWithoutPrior ==
  (C10Case /\ OpenEnded) => (pc = "failed" /\ openErr = "ErrInvalidFileFormat")

\* ---- C11
\* some segment flagged data-is-interleaved has a String channel with raw data
C11Case ==
  /\ shape.hdr1 = HeaderIndex /\ shape.n1 >= 1
  /\ \E k \in 1..NumSegs(shape) :
       /\ SegInterleaved(shape, k)
       /\ \E i \in DOMAIN RefActive(shape, k) : RefActive(shape, k)[i].dataType = "String"

\* C11: open fails with InvalidFileFormat whenever a segment flagged
\* data-is-interleaved has an object with a String raw-data index, declared
\* in the segment's own record or carried over from the previous segment; so
\* no opened File has a String channel with an interleaved DataChunk.
C11_InterleavedString ==
  /\ (C11Case /\ OpenEnded) => (pc = "failed" /\ openErr = "ErrInvalidFileFormat")
  /\ Opened =>
       \A g \in DOMAIN Groups : \A c \in DOMAIN Groups[g].Channels :
         Groups[g].Channels[c].DataType = "String" =>
           \A i \in DOMAIN Groups[g].Channels[c].dataChunks :
             ~Groups[g].Channels[c].dataChunks[i].isInterleaved

\* ---- C12
\* C12: if the first segment that carries metadata has new-object-list unset,
\* there being no previous segment to inherit from, open fails with an error
\* that matches InvalidFileFormat.
C12_FirstSegmentWithoutObjectList ==
  (~shape.nol1 /\ OpenEnded) => (pc = "failed" /\ openErr = "ErrInvalidFileFormat")

\* the scan of such a file has ended in the error, and Open closed its file
C12_Witness ==
  /\ ~shape.nol1 /\ shape.n1 >= 1 /\ shape.hdr1 = HeaderIndex
  /\ pc = "failed" /\ openErr = "ErrInvalidFileFormat"
  /\ segments = <<>> /\ srcClosed

\* ---- C13
\* a string holds one quoted component from position i to position j
RECURSIVE IsEscaped(_)
IsEscaped(text) ==
  IF text = <<>> THEN TRUE
  ELSE IF Head(text) # "'" THEN IsEscaped(Tail(text))
  ELSE Len(text) >= 2 /\ text[2] = "'" /\ IsEscaped(Tail(Tail(text)))

IsComponent(path, i, j) ==
  /\ j >= i + 2 /\ j <= Len(path)
  /\ path[i] = "/" /\ path[i + 1] = "'" /\ path[j] = "'"
  /\ IsEscaped(SubSeq(path, i + 2, j - 1))

\* exactly zero, one or two single-quoted components each preceded by '/'
WellFormedPath(path) ==
  \/ path = <<"/">>
  \/ IsComponent(path, 1, Len(path))
  \/ \E j \in 1..Len(path) : IsComponent(path, 1, j) /\ IsComponent(path, j + 1, Len(path))

\* C13: for every input string that is not exactly zero, one or two
\* single-quoted components each preceded by '/', parsePath returns
\* InvalidPath and does not crash (the empty string, a missing leading '/',
\* an unquoted component, an unterminated quote, three or more components).
C13_MalformedPathRejected ==
  (call.fn = "parsePath" /\ ret # Pending /\ ~WellFormedPath(call.arg))
    => ret.err = "ErrInvalidPath"

\* ---- C14
\* C14: parsePath maps "/" to ("", ""), "/'G'" to (G, "") and "/'G'/'C'" to
\* (G, C) for every component text G and C, two consecutive quotes inside a
\* component standing for one quote and a '/' inside not ending it.
C14_PathComponents ==
  (call.fn = "parsePath" /\ ret # Pending) =>
    \A cs \in CompLists :
      EncodePath(cs) = call.arg =>
        ret = [group |-> IF Len(cs) > 0 THEN cs[1] ELSE <<>>,
               channel |-> IF Len(cs) > 1 THEN cs[2] ELSE <<>>,
               err |-> "nil"]

\* the path of group a' and channel / has been parsed to these two texts
C14_Witness ==
  /\ call.fn = "parsePath"
  /\ call.arg = <<"/", "'", "a", "'", "'", "'", "/", "'", "/", "'">>
  /\ ret = [group |-> <<"a", "'">>, channel |-> <<"/">>, err |-> "nil"]

\* ---- C15
\* C15: converting a Timestamp of s seconds since 1904-01-01T00:00:00 UTC and
\* fraction r to wall-clock time gives the instant with Unix seconds
\* s - 2,082,844,800 and nanoseconds floor(r * 10^9 / 2^64); s = 0, r = 0
\* converts to 1904-01-01T00:00:00 UTC.
C15_TimestampAsTime ==
  (call.fn = "AsTime" /\ ret # Pending) =>
    /\ ret.unix = call.arg.Timestamp - 2082844800
    /\ ret.nsec \in 0..(10 ^ 9 - 1)
    /\ ret.nsec = MulShr(call.arg.Remainder)

\* ---- C16
\* the value of the 128-bit pattern whose most significant byte comes first:
\* sign bit 127, exponent bits 126..112, mantissa bits 111..0
QuadValue(be) ==
  LET sign == be[1] \div 128
      e == (be[1] % 128) * 256 + be[2]
      m == [i \in 1..14 |-> be[i + 2]]
      mzero == \A i \in 1..14 : m[i] = 0
  IN CASE e = 32767 /\ mzero -> [kind |-> "inf", neg |-> sign = 1]
       [] e = 32767 /\ ~mzero -> [kind |-> "nil"]
       [] e = 0 /\ mzero -> [kind |-> "zero"]
       [] e = 0 /\ ~mzero -> [kind |-> "subnormal", neg |-> sign = 1, exp |-> -16382,
                              mantissa |-> m]
       [] OTHER -> [kind |-> "normal", neg |-> sign = 1, exp |-> e - 16383, mantissa |-> m]

Normal(neg, exp, m1) ==
  [kind |-> "normal", neg |-> neg, exp |-> exp, mantissa |-> <<m1>> \o Zeros(13)]

\* the values the documentation lists, by their leading bytes and last byte
QuadListed(be) ==
  CASE be = QuadBytes(63, 255, 0, 0) -> Normal(FALSE, 0, 0)       \* 1
    [] be = QuadBytes(191, 255, 0, 0) -> Normal(TRUE, 0, 0)       \* -1
    [] be = QuadBytes(64, 0, 0, 0) -> Normal(FALSE, 1, 0)         \* 2
    [] be = QuadBytes(64, 0, 128, 0) -> Normal(FALSE, 1, 128)     \* 3
    [] be = QuadBytes(63, 254, 0, 0) -> Normal(FALSE, -1, 0)      \* 0.5
    [] be = QuadBytes(127, 255, 0, 0) -> [kind |-> "inf", neg |-> FALSE]
    [] be = QuadBytes(255, 255, 0, 0) -> [kind |-> "inf", neg |-> TRUE]
    [] be = QuadBytes(127, 255, 0, 1) -> [kind |-> "nil"]
    [] OTHER -> QuadValue(be)

\* C16: the quad-precision decoder gives the same result for 16 bytes read in
\* big-endian order and for their byte-reversal read in little-endian order,
\* with the sign from bit 127, the exponent from bits 126..112 and the
\* mantissa from bits 111..0: 3F FF 00..00 is 1, BF FF 00..00 is -1,
\* 40 00 00..00 is 2, 40 00 80 00..00 is 3, 3F FE 00..00 is 0.5,
\* 7F FF 00..00 is +Inf, FF FF 00..00 is -Inf and 7F FF 00..01 is NaN.
C16_QuadDecoder ==
  (call.fn = "decodeQuad" /\ ret # Pending) =>
    LET be == IF call.arg.order = "BE" THEN call.arg.bytes ELSE Reverse(call.arg.bytes)
    IN /\ ret = QuadValue(be)
       /\ ret = QuadListed(be)
       /\ ret = decodeQuad(Reverse(call.arg.bytes),
                           IF call.arg.order = "BE" THEN "LE" ELSE "BE")

\* ---- C17
\* a well-formed file whose only, and last, segment carries the sentinel
C17Case ==
  /\ shape.sentinel /\ shape.nol1 /\ shape.hdr1 # HeaderMatchesPrevious
  /\ ~(shape.interleaved /\ (shape.tC = "String" \/ shape.dKind = "String"))

\* C17: a file whose last segment has next_segment_offset equal to the
\* incomplete sentinel opens successfully with IsIncomplete true, and no
\* lead-in is read after that segment.
C17_IncompleteSentinel ==
  C17Case =>
    /\ OpenEnded => (Opened /\ IsIncomplete)
    /\ pc = "scan" => segments = <<>>

\* ---- C18
\* C18: once the consumer stops a read sequence (its yield callback returns
\* false), the reader performs no further Read or Seek on the byte source and
\* yields nothing more, for both the per-value iterator and the batch
\* iterator.
C18_Cancellation ==
  [][(rd.cancelled /\ reads' = reads) => (pos' = pos /\ rd' = rd)]_vars

\* the consumer of a per-value iterator has stopped with values still unread
C18_Witness ==
  /\ rd.cancelled /\ rd.kind = "value" /\ rd.status = "stopped"
  /\ Len(Result) >= 1
  /\ Len(Result) < Groups[rd.group].Channels[rd.channel].totalNumValues
  /\ pos < file.size

\* ---- C19
\* what a consumer that never stops gets from the same iterator on a File
\* that Open has just returned
FreshRead == runToEnd(newReader(rd.group, rd.channel, rd.optBatchSize, rd.kind),
                      hist.openPos)

IsPrefix(a, b) == Len(a) <= Len(b) /\ a = SubSeq(b, 1, Len(a))

SameAsFresh(fresh) ==
  /\ IsPrefix(Result, Flatten(fresh.out))
  /\ ReadEnded => /\ rd.status = fresh.status
                  /\ rd.err = fresh.err
                  /\ Result = Flatten(fresh.out)

\* C19: read sequences run one after another on the same File (each fully
\* consumed, or abandoned part-way, before the next starts), on the same or
\* on different channels, each yield exactly the samples they would yield on
\* a freshly opened File: the byte-source position an earlier read left
\* behind never changes the result of a later one.
C19_SequentialReads ==
  (pc \in {"ready", "closed"} /\ reads >= 2 /\ other.status = "idle")
    => SameAsFresh(FreshRead)

\* a second read has ended with samples, after a first read on the other
\* channel left the byte source somewhere else than Open did
C19_Witness ==
  /\ reads = 2 /\ rd.status = "done" /\ Len(Result) >= 1
  /\ rd.chunkIdx > 1
  /\ pos # hist.openPos

\* ---- C20
\* C20: parsing a later segment leaves every earlier Segment record
\* unchanged: for each segment, the per-object property maps and each object
\* index's data type, sample count, total size, offset and stride are the
\* same after the whole open pass as at the moment the segment was appended,
\* also for objects that the next segment inherits (new-object-list unset) or
\* re-lists with the matches-previous header.
C20_SegmentsNeverMutated ==
  pc \in {"scan", "project", "ready", "closed"} =>
    \A k \in DOMAIN segments :
      ResolveSegment(segments[k], idxHeap, propHeap) = hist.appended[k]

\* ---- C21
\* the raw data a lead-in announces for its segment: next_segment_offset -
\* raw_data_offset, or what the file holds after the metadata under the sentinel
TotalRawDataSize(segmentOffset, leadIn) ==
  IF leadIn.nextSegmentOffset = segmentIncomplete
  THEN file.size - (segmentOffset + leadInSize + leadIn.rawDataOffset)
  ELSE leadIn.nextSegmentOffset - leadIn.rawDataOffset

\* md is what readSegmentMetadata returns for the segment whose objects are
\* st: the quotient, 0 for a chunk size of 0, and no failure of its own
ChunkCount(seg, st, md) ==
  LET chunkSize == SumTotalSize(st.mobjs, DOMAIN st.mobjs, st.idxHeap)
  IN st.err = "nil" =>
       /\ md.err = "nil"
       /\ md.metadata.chunkSize = chunkSize
       /\ md.metadata.numChunks =
            IF chunkSize = 0 THEN 0
            ELSE TotalRawDataSize(currentOffset, seg.leadIn) \div chunkSize

ChunkCountAt(seg) ==
  seg.leadIn.containsMetadata =>
    ChunkCount(seg,
               readObjects(seedObjects(seg.leadIn, Len(segments)), seg.records,
                           seg.leadIn, Len(segments)),
               readSegmentMetadata(currentOffset, seg.leadIn, seg.records, Len(segments)))

\* C21: for every segment with metadata, num_chunks equals the integer
\* quotient total_raw_data_size / chunk_size, and is 0 when chunk_size is 0
\* (no object of the segment has a non-null index, or all such indexes have
\* total size 0); parsing such a segment succeeds.
C21_NumChunks ==
  pc = "scan" =>
    \A li \in {readSegmentLeadIn(pos)} : li.err = "nil" => ChunkCountAt(file.segs[li.k])

\* ---- C22
\* the second segment re-lists channel C with header 0xFFFFFFFF and channel D,
\* which keeps its raw data, as matches-previous
C22Case ==
  /\ NumSegs(shape) = 2
  /\ shape.more[1].cMode = HeaderNoRawData
  /\ shape.more[1].dMode = HeaderMatchesPrevious

\* C22: an object whose record in a segment has raw-index header 0xFFFFFFFF
\* has a null index in that segment, is not counted in the segment's
\* chunk_size, and gets no DataChunks from the segment, also when the segment
\* has new-object-list unset and the previous segment held a non-null index
\* for the same path.
C22_NoRawDataHeader ==
  (C22Case /\ Opened) =>
    LET md == segments[2].metadata
    IN /\ md.objects[PathC].index = 0
       /\ md.chunkSize = idxHeap[md.objects[PathD].index].totalSize
       /\ Len(Groups[NameG].Channels[NameC].dataChunks) = SegChunks(shape, 1)

\* ---- C23
\* the Channel that stands for the object path, if Groups holds it
ChannelOf(path, pp) ==
  /\ pp.group \in DOMAIN Groups
  /\ pp.channel \in DOMAIN Groups[pp.group].Channels
  /\ LET ch == Groups[pp.group].Channels[pp.channel]
     IN /\ ch.GroupName = pp.group
        /\ ch.Name = pp.channel
        /\ ch.path = path
        /\ ch.Properties = propHeap[objects[path].properties]
        /\ ch.dataChunks = chunksOf(path, 1)

\* C23: after a successful open, every channel-shaped object path /'G'/'C'
\* that occurs in any segment is present as Groups[G].Channels[C] with
\* GroupName G and with the properties and chunk catalog of that very path,
\* also when two different groups each contain a channel with the same name
\* C, and the result does not depend on map iteration order.
C23_EveryChannelProjected ==
  Opened =>
    \A path \in DOMAIN objects :
      \A pp \in {parsePath(path)} :
        (pp.err = "nil" /\ pp.channel # <<>>) => ChannelOf(path, pp)

\* ---- C24
\* a complete, well-formed file has been opened and no read has begun
C24Case ==
  /\ pc = "ready" /\ reads = 0
  /\ shape.cut = 0 /\ ~shape.sentinel

\* what a consumer that never stops gets from a channel under a batch size
ReadUnder(g, c, bs, kind) == runToEnd(newReader(g, c, bs, kind), pos)

SameSamples(a, b) ==
  /\ a.status = "done" /\ b.status = "done"
  /\ Flatten(a.out) = Flatten(b.out)

BatchesWithin(a, bs) == \A i \in DOMAIN a.out : Len(a.out[i]) <= bs

\* C24: for every channel and every two positive BatchSize values,
\* concatenating the batches yielded under one batch size gives the same
\* sample sequence as under the other, and the same as the per-value
\* iterator, for contiguous fixed-width, interleaved and String chunks alike;
\* each yielded batch holds at most BatchSize samples and never more than the
\* samples remaining in the current chunk.
C24_BatchSizeInvariance ==
  C24Case =>
    \A g \in DOMAIN Groups : \A c \in DOMAIN Groups[g].Channels :
      \A bs1, bs2 \in 1..MaxBatch :
        /\ SameSamples(ReadUnder(g, c, bs1, "batch"), ReadUnder(g, c, bs2, "batch"))
        /\ SameSamples(ReadUnder(g, c, bs1, "batch"), ReadUnder(g, c, bs2, "value"))
        /\ BatchesWithin(ReadUnder(g, c, bs1, "batch"), bs1)

\* ---- C25
\* channel C is named by the first segment's record, whose raw-index header
\* is "no raw data", and by no other record
C25Case == shape.hdr1 = HeaderNoRawData

\* C25: a channel whose object is never indexed in any segment (raw-index
\* header 0xFFFFFFFF in every record that names it) is projected as a Channel
\* with an empty chunk catalog and NumValues() = 0, and opening the file
\* neither fails nor crashes.
C25_NeverIndexedChannel ==
  (C25Case /\ OpenEnded) =>
    /\ openErr = "nil"
    /\ NameG \in DOMAIN Groups
    /\ NameC \in DOMAIN Groups[NameG].Channels
    /\ Groups[NameG].Channels[NameC].dataChunks = <<>>
    /\ Groups[NameG].Channels[NameC].totalNumValues = 0

\* ---- C26
\* the scan loop is about to read the lead-in of a later segment of an index
\* file
C26Case == file.isIndex /\ pc = "scan" /\ segments # <<>>

\* C26: when scanning an index file, after a segment's metadata has been
\* parsed the byte-source position equals current_offset, so the next lead-in
\* is read from the right place, and the stop test current_offset >= file_size
\* fires only after the last segment of the index file: every segment of a
\* multi-segment index file is parsed.
C26_IndexFileScan ==
  /\ C26Case => pos = currentOffset
  /\ (file.isIndex /\ Opened) => Len(segments) = Len(file.segs)

\* ---- C27
\* the segment appended last: its index records are as its own layout pass
\* left them
LastSegment == segments[Len(segments)]
JustScanned == pc \in {"scan", "project"} /\ segments # <<>>

Indexed(md) == {path \in DOMAIN md.objects : md.objects[path].index # 0}

ChunkSizeOf(md) == SumTotalSize(md.objects, DOMAIN md.objects, idxHeap)

StrideOf(md, path) ==
  ChunkSizeOf(md) - idxHeap[md.objects[path].index].totalSize

\* the strides the chunks of a channel have to carry, segment after segment
RECURSIVE stridesOf(_, _)
stridesOf(path, k) ==
  IF k > Len(segments) THEN <<>>
  ELSE LET segment == segments[k]
           md == segment.metadata
       IN (IF segment.leadIn.containsRawData /\ path \in Indexed(md)
           THEN [chunkIdx \in 1..md.numChunks |-> StrideOf(md, path)]
           ELSE <<>>)
          \o stridesOf(path, k + 1)

CarriedStrides(ch) == [i \in DOMAIN ch.dataChunks |-> ch.dataChunks[i].stride]

\* C27: for every segment and every object o with a non-null index in it
\* (objects whose total_size is 0 included), the recorded stride equals
\* chunk_size - total_size(o), chunk_size being the segment's sum of
\* total_size over its objects with a non-null index, and every DataChunk
\* emitted for o from that segment carries this stride.
C27_Stride ==
  /\ JustScanned =>
       \A path \in Indexed(LastSegment.metadata) :
         idxHeap[LastSegment.metadata.objects[path].index].stride
           = StrideOf(LastSegment.metadata, path)
  /\ Opened =>
       \A g \in DOMAIN Groups : \A c \in DOMAIN Groups[g].Channels :
         CarriedStrides(Groups[g].Channels[c])
           = stridesOf(Groups[g].Channels[c].path, 1)

\* ---- C28
\* the objects of a segment that have an index, in object order
IndexedOrder(md) == SelectSeq(md.objectOrder, LAMBDA path : path \in Indexed(md))

IndexAt(md, order, i) == idxHeap[md.objects[order[i]].index]

Adjacent(segment, order) ==
  \A i \in DOMAIN order :
    IndexAt(segment.metadata, order, i).offset
      = IF i = 1
        THEN segment.offset + leadInSize + segment.leadIn.rawDataOffset
        ELSE IndexAt(segment.metadata, order, i - 1).offset
             + IndexAt(segment.metadata, order, i - 1).totalSize

\* C28: in every segment, walking object_order over the objects with a
\* non-null index, the first has index.offset = segment_offset + 28 +
\* raw_data_offset and each following one has index.offset equal to the
\* preceding one's offset plus the preceding one's total_size: consecutive
\* objects' data are adjacent.
C28_AdjacentOffsets ==
  JustScanned => Adjacent(LastSegment, IndexedOrder(LastSegment.metadata))

\* ---- C29
\* a second read sequence has been started and pulled on while rd was
\* suspended between two batches of one chunk
TwoLive == other.status # "idle"

\* the File is a complete, well-formed data file and the second sequence
\* reads a contiguous fixed-width channel
C29Case ==
  /\ TwoLive
  /\ shape.cut = 0 /\ ~shape.sentinel /\ ~shape.interleaved
  /\ other.dataType # "String"

\* what rd yields when its File has no other live read sequence
Alone(r) == runToEnd(newReader(r.group, r.channel, r.optBatchSize, r.kind), hist.openPos)

\* C29: if pulls from two live read sequences on the same File are
\* interleaved (a second channel read is started and advanced while the
\* first is suspended between two batches of one chunk), at least one of the
\* two can yield samples that differ from what it yields when run alone, and
\* the reader has no guard that detects or prevents a second live read
\* sequence: the second sequence is set up and yields its first batch without
\* an error, and it has moved the byte source the first one goes on reading.
C29_NoGuardOnSecondRead ==
  C29Case =>
    /\ other.err = "nil"
    /\ other.status \in {"chunk", "batch", "done"}
    /\ Len(other.out) = Min(1, Len(Alone(other).out))
    /\ other.out = SubSeq(Alone(other).out, 1, Len(other.out))

\* the first sequence, resumed after the second one's pull, has run to its
\* end without an error and has yielded other samples than it yields alone
C29_Witness ==
  /\ C29Case
  /\ rd.dataType # "String"
  /\ rd.status = "done" /\ rd.err = "nil"
  /\ Alone(rd).status = "done"
  /\ Result # Flatten(Alone(rd).out)

\* ---- C30
\* an iteration of the scan loop has been made
ScanStep == pc = "scan" /\ <<pc, pos, currentOffset, segments>>' # <<pc, pos, currentOffset, segments>>

\* C30: for every byte source of finite size the open pass terminates: every
\* scan-loop iteration either stops (error, sentinel, or current_offset >=
\* file_size) or moves current_offset strictly forward, for every 64-bit
\* next_segment_offset value read from a lead-in, including values whose
\* signed 64-bit reinterpretation plus 28 is zero or negative.
C30_ScanTerminates ==
  [][ScanStep => (pc' # "scan" \/ currentOffset' > currentOffset)]_vars

====
